---- MODULE Spec2Model ----
(***************************************************************************)
(* A model of preservationeval: the shifted-index LookupTable              *)
(* (src/src/preservationeval/lookup.py), the module-level pi / mold / emc  *)
(* functions built on it, and the table assembly of                        *)
(* src/src/preservationeval/install/parse.py.                              *)
(*                                                                         *)
(* Numbers.  A Python number is a record [ty, q, e].  A finite value is    *)
(* q/4 + e * 2^-54: q counts quarters, e counts units of 2^-54, the        *)
(* spacing of the doubles just below 0.5.  ty is the Python type of the    *)
(* object ("int", "float"), or "nan", "inf", "ninf" for the three special  *)
(* floats, or a non-numeric type ("str", "list", "bool").                  *)
(***************************************************************************)
EXTENDS Integers, Sequences, FiniteSets, TLC

VARIABLES table, tables, call

vars == <<table, tables, call>>

\* ------------------------------------------------------------------ bounds

\* Largest number of rows / columns of a constructed table.
MaxRows == 2
MaxCols == 2
\* Lookup coordinates range over -MaxCoord .. MaxCoord.
MaxCoord == 3
\* Largest offset, in units of 2^-54, of a float from the quarter grid.
MaxEps == 1
\* _round_half_up is applied to values in -MaxRound .. MaxRound.
MaxRound == 4

\* The cells of an array handed to validate_table_data range over
\* -1 .. MaxValue.
MaxValue == 3

\* ----------------------------------------------------------------- numbers

IntV(n) == [ty |-> "int", q |-> 4 * n, e |-> 0]
FloatV(q, e) == [ty |-> "float", q |-> q, e |-> e]
NaN == [ty |-> "nan", q |-> 0, e |-> 0]
PosInf == [ty |-> "inf", q |-> 0, e |-> 0]
NegInf == [ty |-> "ninf", q |-> 0, e |-> 0]
NonNumber(ty) == [ty |-> ty, q |-> 0, e |-> 0]

Abs(n) == IF n < 0 THEN -n ELSE n

RECURSIVE Pow2(_)
Pow2(k) == IF k <= 0 THEN 1 ELSE 2 * Pow2(k - 1)

\* floor(log2(m)) for m >= 1.
RECURSIVE Log2(_)
Log2(m) == IF m <= 1 THEN 0 ELSE 1 + Log2(m \div 2)

\* type(x) in (int, float)
IsIntOrFloat(x) == x.ty \in {"int", "float", "nan", "inf", "ninf"}

IsFinite(x) == x.ty \in {"int", "float"}

\* a < b on Python numbers (every comparison with nan is False).
Lt(a, b) ==
    IF a.ty = "nan" \/ b.ty = "nan" THEN FALSE
    ELSE IF a.ty = "ninf" THEN b.ty # "ninf"
    ELSE IF a.ty = "inf" THEN FALSE
    ELSE IF b.ty = "inf" THEN TRUE
    ELSE IF b.ty = "ninf" THEN FALSE
    ELSE a.q < b.q \/ (a.q = b.q /\ a.e < b.e)

Gt(a, b) == Lt(b, a)

Le(a, b) ==
    IF a.ty = "nan" \/ b.ty = "nan" THEN FALSE
    ELSE ~Lt(b, a)

\* max(a, b) and min(a, b): the first argument unless the second beats it.
PyMax(a, b) == IF Gt(b, a) THEN b ELSE a
PyMin(a, b) == IF Lt(b, a) THEN b ELSE a

\* The spacing, in units of 2^-54, of the doubles around q/4 + e * 2^-54
\* (q # 0): 2^(k+2) in the binade [2^k, 2^(k+1)), and half of that just
\* below a power of two.
Ulp(q, e) ==
    LET m == Abs(q)
        k == Log2(m)
        towardZero == (q > 0 /\ e < 0) \/ (q < 0 /\ e > 0)
    IN IF m = Pow2(k) /\ towardZero THEN Pow2(k - 1) ELSE Pow2(k)

\* e rounded to a multiple of u, a tie going to the even multiple.
RoundTiesEven(e, u) ==
    LET j == e \div u
        r == e % u
    IN IF 2 * r < u THEN j * u
       ELSE IF 2 * r > u THEN (j + 1) * u
       ELSE IF j % 2 = 0 THEN j * u ELSE (j + 1) * u

\* The double nearest to the exact value q/4 + e * 2^-54 (IEEE 754
\* round-to-nearest, ties to even).
ToDouble(q, e) ==
    IF q = 0 THEN FloatV(0, e)
    ELSE FloatV(q, RoundTiesEven(e, Ulp(q, e)))

IsDouble(q, e) == ToDouble(q, e) = FloatV(q, e)

\* math.floor of a finite value.
Floor(x) == IF x.q % 4 = 0 /\ x.e < 0 THEN (x.q \div 4) - 1 ELSE x.q \div 4

\* int(x) of a finite value: truncation toward zero.
Trunc(x) ==
    IF x.q > 0 \/ (x.q = 0 /\ x.e >= 0) THEN Floor(x)
    ELSE -Floor([x EXCEPT !.q = -x.q, !.e = -x.e])

Raise(name) == [kind |-> name]
Return(v) == [kind |-> "ok", val |-> v]

\* n + 0.5 in float arithmetic, for a finite n.
AddHalf(n) == ToDouble(n.q + 2, n.e)

RoundAwayFromZero(n) ==
    IF n.ty = "nan" THEN Raise("ValueError")
    ELSE IF n.ty \in {"inf", "ninf"} THEN Raise("OverflowError")
    ELSE IF Le(IntV(0), n) THEN Return(Trunc(ToDouble(n.q + 2, n.e)))
    ELSE Return(Trunc(ToDouble(n.q - 2, n.e)))

RoundHalfEven(n) ==
    IF n.ty = "nan" THEN Raise("ValueError")
    ELSE IF n.ty \in {"inf", "ninf"} THEN Raise("OverflowError")
    ELSE LET up == Floor(FloatV(n.q + 2, n.e))
         IN IF n.q % 4 = 2 /\ n.e = 0 /\ up % 2 # 0
            THEN Return(up - 1) ELSE Return(up)

\* LookupTable._round_half_up: floor(n + 0.5).
RoundHalfUp(n) ==
    IF n.ty = "nan" THEN Raise("ValueError")
    ELSE IF n.ty \in {"inf", "ninf"} THEN Raise("OverflowError")
    ELSE Return(Floor(AddHalf(n)))

\* The rounding rule of the tests, lambda x: int(x).
RoundTruncate(n) ==
    IF n.ty = "nan" THEN Raise("ValueError")
    ELSE IF n.ty \in {"inf", "ninf"} THEN Raise("OverflowError")
    ELSE Return(Trunc(n))

RoundingFuncs == {"round_half_up", "int"}

ApplyRounding(f, n) ==
    IF f = "round_half_up" THEN RoundHalfUp(n) ELSE RoundTruncate(n)

\* ------------------------------------------------------------- LookupTable

\* BoundaryBehavior is a Flag: a policy is a set of the members RAISE,
\* CLAMP_X, CLAMP_Y and LOG; CLAMP is CLAMP_X | CLAMP_Y.
RAISE == {"RAISE"}
CLAMP_X == {"CLAMP_X"}
CLAMP_Y == {"CLAMP_Y"}
CLAMP == CLAMP_X \cup CLAMP_Y
LOG == {"LOG"}

Policies == SUBSET (RAISE \cup CLAMP \cup LOG)

NoTable == [kind |-> "none"]

\* A numpy array whose cells are numbered in row-major order from base, as
\* np.arange(n).reshape(rows, cols) and PITABLE[base:].reshape(rows, cols)
\* are; kind "list" is an argument that is no numpy array.
NdArray(shape, base) == [kind |-> "ndarray", shape |-> shape, base |-> base]
NotAnArray == [kind |-> "list", shape |-> <<3>>, base |-> 0]

Ndim(data) == Len(data.shape)
Rows(data) == data.shape[1]
Cols(data) == data.shape[2]

\* data[r, c] for 0 <= r < rows and 0 <= c < cols.
Cell(data, r, c) == data.base + r * Cols(data) + c

\* LookupTable.__init__
LookupTableInit(data, temp_min, rh_min, boundary_behavior, rounding_func) ==
    IF data.kind # "ndarray" THEN Raise("TypeError")
    ELSE IF Ndim(data) # 2 THEN Raise("ValueError")
    ELSE Return([kind |-> "LookupTable",
                 data |-> data,
                 temp_min |-> temp_min,
                 rh_min |-> rh_min,
                 boundary_behavior |-> boundary_behavior,
                 rounding_func |-> IF rounding_func = "None"
                                   THEN "round_half_up" ELSE rounding_func])

TempMaxOffByOne(tbl) == tbl.temp_min + Rows(tbl.data)

\* LookupTable.temp_max
TempMax(tbl) == tbl.temp_min + Rows(tbl.data) - 1

\* LookupTable.rh_max
RhMax(tbl) == tbl.rh_min + Cols(tbl.data) - 1

Ok(v, w) == [kind |-> "ok", val |-> v, warnings |-> w]
Fail(name, w) == [kind |-> name, warnings |-> w]

CheckBoundsClampToInput(x, lo, hi, clamp, log, err) ==
    LET w == IF log THEN 1 ELSE 0
        low == IF Lt(x, IntV(lo))
               THEN IF clamp THEN Ok(x, w) ELSE Fail(err, 0)
               ELSE Ok(x, 0)
    IN IF low.kind # "ok" THEN low
       ELSE IF Gt(low.val, IntV(hi))
       THEN IF clamp THEN Ok(low.val, low.warnings + w)
            ELSE Fail(err, low.warnings)
       ELSE low

CheckBoundsNeverRaise(x, lo, hi, clamp, log, err) ==
    LET w == IF log THEN 1 ELSE 0
        low == IF Lt(x, IntV(lo)) THEN Ok(PyMax(IntV(lo), x), w) ELSE Ok(x, 0)
    IN IF Gt(low.val, IntV(hi))
       THEN Ok(PyMin(IntV(hi), low.val), low.warnings + w)
       ELSE low

CheckBoundsRoundFirst(x, lo, hi, clamp, log, err) ==
    LET w == IF log THEN 1 ELSE 0
        r == IF IsFinite(x) THEN IntV(RoundHalfUp(x).val) ELSE x
        low == IF Lt(r, IntV(lo))
               THEN IF clamp THEN Ok(PyMax(IntV(lo), r), w) ELSE Fail(err, 0)
               ELSE Ok(r, 0)
    IN IF low.kind # "ok" THEN low
       ELSE IF Gt(low.val, IntV(hi))
       THEN IF clamp THEN Ok(PyMin(IntV(hi), low.val), low.warnings + w)
            ELSE Fail(err, low.warnings)
       ELSE low

\* The two range checks of one axis in __getitem__: below the minimum, then
\* above the maximum; each clamps (and warns under LOG) or raises err.
CheckBounds(x, lo, hi, clamp, log, err) ==
    LET w == IF log THEN 1 ELSE 0
        low == IF Lt(x, IntV(lo))
               THEN IF clamp THEN Ok(PyMax(IntV(lo), x), w) ELSE Fail(err, 0)
               ELSE Ok(x, 0)
    IN IF low.kind # "ok" THEN low
       ELSE IF Gt(low.val, IntV(hi))
       THEN IF clamp THEN Ok(PyMin(IntV(hi), low.val), low.warnings + w)
            ELSE Fail(err, low.warnings)
       ELSE low

\* numpy's handling of one index of an axis of extent n: a negative index
\* counts from the end, anything outside -n .. n-1 is an IndexError.
NumpyIndex(i, n) ==
    IF 0 <= i /\ i < n THEN Return(i)
    ELSE IF -n <= i /\ i < 0 THEN Return(i + n)
    ELSE Raise("IndexError")

TempIdxNoShift(tbl, r) == r

RhIdxNoShift(tbl, r) == r

\* temp_idx = self.rounding_func(temp) - self.temp_min
TempIdx(tbl, r) == r - tbl.temp_min

\* rh_idx = self.rounding_func(rh) - self.rh_min
RhIdx(tbl, r) == r - tbl.rh_min

TypeCheckBoth(temp, rh) == ~IsIntOrFloat(temp) /\ ~IsIntOrFloat(rh)

\* The type test of __getitem__: True when TypeError is raised.
TypeCheck(temp, rh) == ~IsIntOrFloat(temp) \/ ~IsIntOrFloat(rh)

GetItemVariant(tbl, temp, rh, clamp_rh, rh_first) ==
    IF TypeCheck(temp, rh) THEN Fail("TypeError", 0)
    ELSE
    LET log == "LOG" \in tbl.boundary_behavior
        ct == CheckBounds(temp, tbl.temp_min, TempMax(tbl),
                          "CLAMP_X" \in tbl.boundary_behavior, log,
                          "TemperatureError")
        cr == CheckBounds(rh, tbl.rh_min, RhMax(tbl), clamp_rh, log,
                          "HumidityError")
        w == (IF ct.kind = "ok" THEN ct.warnings ELSE 0)
                + (IF cr.kind = "ok" THEN cr.warnings ELSE 0)
        first == IF rh_first THEN cr ELSE ct
        second == IF rh_first THEN ct ELSE cr
    IN IF first.kind # "ok" THEN Fail(first.kind, 0)
       ELSE IF second.kind # "ok" THEN Fail(second.kind, first.warnings)
       ELSE
       LET rt == ApplyRounding(tbl.rounding_func, ct.val)
           rr == ApplyRounding(tbl.rounding_func, cr.val)
       IN IF rt.kind # "ok" THEN Fail(rt.kind, w)
          ELSE IF rr.kind # "ok" THEN Fail(rr.kind, w)
          ELSE
          LET temp_idx == TempIdx(tbl, rt.val)
              rh_idx == RhIdx(tbl, rr.val)
              row == NumpyIndex(temp_idx, Rows(tbl.data))
              col == NumpyIndex(rh_idx, Cols(tbl.data))
          IN IF row.kind # "ok" \/ col.kind # "ok"
             THEN [kind |-> "IndexError", temp_idx |-> temp_idx,
                   rh_idx |-> rh_idx, warnings |-> w]
             ELSE [kind |-> "ok", val |-> Cell(tbl.data, row.val, col.val),
                   temp_idx |-> temp_idx, rh_idx |-> rh_idx, warnings |-> w]

GetItemSharedFlag(tbl, temp, rh) ==
    GetItemVariant(tbl, temp, rh, "CLAMP_X" \in tbl.boundary_behavior, FALSE)

GetItemHumidityFirst(tbl, temp, rh) ==
    GetItemVariant(tbl, temp, rh, "CLAMP_Y" \in tbl.boundary_behavior, TRUE)

\* LookupTable.__getitem__
GetItem(tbl, temp, rh) ==
    IF TypeCheck(temp, rh) THEN Fail("TypeError", 0)
    ELSE
    LET log == "LOG" \in tbl.boundary_behavior
        ct == CheckBounds(temp, tbl.temp_min, TempMax(tbl),
                          "CLAMP_X" \in tbl.boundary_behavior, log,
                          "TemperatureError")
    IN IF ct.kind # "ok" THEN ct
       ELSE
       LET cr == CheckBounds(rh, tbl.rh_min, RhMax(tbl),
                             "CLAMP_Y" \in tbl.boundary_behavior, log,
                             "HumidityError")
           w == ct.warnings + cr.warnings
       IN IF cr.kind # "ok" THEN Fail(cr.kind, w)
          ELSE
          LET rt == ApplyRounding(tbl.rounding_func, ct.val)
          IN IF rt.kind # "ok" THEN Fail(rt.kind, w)
             ELSE
             LET rr == ApplyRounding(tbl.rounding_func, cr.val)
             IN IF rr.kind # "ok" THEN Fail(rr.kind, w)
                ELSE
                LET temp_idx == TempIdx(tbl, rt.val)
                    rh_idx == RhIdx(tbl, rr.val)
                    row == NumpyIndex(temp_idx, Rows(tbl.data))
                    col == NumpyIndex(rh_idx, Cols(tbl.data))
                IN IF row.kind # "ok" \/ col.kind # "ok"
                   THEN [kind |-> "IndexError",
                         temp_idx |-> temp_idx,
                         rh_idx |-> rh_idx,
                         warnings |-> w]
                   ELSE [kind |-> "ok",
                         val |-> Cell(tbl.data, row.val, col.val),
                         temp_idx |-> temp_idx,
                         rh_idx |-> rh_idx,
                         warnings |-> w]

\* ------------------------------------------------------------------ inputs

TempMins == {-1}
RhMins == {1}

DataArgs ==
    {NdArray(<<r, c>>, 0) : r \in 0..MaxRows, c \in 0..MaxCols}
        \cup {NdArray(<<3>>, 0), NdArray(<<1, 1, 1>>, 0), NotAnArray}

\* Floats on the quarter grid, and the doubles next to a tie (x.5).
GridFloats == {FloatV(q, 0) : q \in (-4 * MaxCoord)..(4 * MaxCoord)}

TieNeighbours ==
    {FloatV(q, e) : q \in {-2, 2}, e \in (-MaxEps)..MaxEps} \cap
        {x \in [ty : {"float"}, q : {-2, 2}, e : (-MaxEps)..MaxEps] :
            x.e # 0 /\ IsDouble(x.q, x.e)}

Floats == GridFloats \cup TieNeighbours

Numbers ==
    {IntV(n) : n \in (-MaxCoord)..MaxCoord} \cup Floats \cup {NaN, PosInf, NegInf}

\* "20", [20] and True.
NonNumbers ==
    {NonNumber("str"), NonNumber("list"), [ty |-> "bool", q |-> 4, e |-> 0]}

Coords == Numbers \cup NonNumbers

\* ----------------------------------------------------------------- actions

NoCall == [op |-> "none"]

Init ==
    /\ table = NoTable
    /\ tables = [kind |-> "none"]
    /\ call = NoCall

\* table = LookupTable(data, temp_min, rh_min, boundary_behavior, rounding_func)
Construct ==
    /\ call = NoCall
    /\ table = NoTable
    /\ \E data \in DataArgs, temp_min \in TempMins, rh_min \in RhMins,
          bb \in Policies, rf \in RoundingFuncs \cup {"None"} :
        LET r == LookupTableInit(data, temp_min, rh_min, bb, rf)
        IN /\ table' = IF r.kind = "ok" THEN r.val ELSE table
           /\ call' = [op |-> "__init__", data |-> data, result |-> r.kind]
    /\ UNCHANGED tables

LookupStoringRounding ==
    /\ call = NoCall
    /\ table # NoTable
    /\ \E temp \in Coords, rh \in Coords :
        call' = [op |-> "__getitem__", temp |-> temp, rh |-> rh,
                 result |-> GetItem(table, temp, rh)]
    /\ table' = [table EXCEPT !.rounding_func = "int"]
    /\ UNCHANGED tables

\* table[temp, rh]
Lookup ==
    /\ call = NoCall
    /\ table # NoTable
    /\ \E temp \in Coords, rh \in Coords :
        call' = [op |-> "__getitem__", temp |-> temp, rh |-> rh,
                 result |-> GetItem(table, temp, rh)]
    /\ UNCHANGED <<table, tables>>

SetRoundingFuncAndPolicy ==
    /\ call = NoCall
    /\ table # NoTable
    /\ \E rf \in RoundingFuncs :
        /\ table' = [table EXCEPT !.rounding_func = rf,
                                  !.boundary_behavior = RAISE]
        /\ call' = [op |-> "set_rounding_func", rounding_func |-> rf]
    /\ UNCHANGED tables

\* table.set_rounding_func(rounding_func)
SetRoundingFunc ==
    /\ call = NoCall
    /\ table # NoTable
    /\ \E rf \in RoundingFuncs :
        /\ table' = [table EXCEPT !.rounding_func = rf]
        /\ call' = [op |-> "set_rounding_func", rounding_func |-> rf]
    /\ UNCHANGED tables

\* The call returns (or its exception propagates) to the caller; the program
\* is single-threaded, so the next call starts after that.
Done ==
    /\ call # NoCall
    /\ call' = NoCall
    /\ UNCHANGED <<table, tables>>

Next == Construct \/ Lookup \/ SetRoundingFunc \/ Done

Spec == Init /\ [][Next]_vars

\* ------------------------------------------- module-level tables, pi/mold/emc

\* const.py: the limits validate_temp and validate_rh accept.
TEMP_MIN == -100
TEMP_MAX == 100
RH_MIN == 0
RH_MAX == 100

\* pi_table, mold_table and emc_table of lookup.py.  A cell holds its
\* position in the flat list it was cut from (PITABLE for pi_table and
\* mold_table, EMCTABLE for emc_table).
pi_table == LookupTableInit(NdArray(<<89, 90>>, 0), -23, 6, CLAMP, "None").val
mold_table == LookupTableInit(NdArray(<<44, 36>>, 8010), 2, 65, RAISE, "None").val
emc_table == LookupTableInit(NdArray(<<86, 101>>, 0), -20, 0, CLAMP, "None").val

\* isinstance(x, (int, float)): bool is a subclass of int.
IsInstanceIntFloat(x) == IsIntOrFloat(x) \/ x.ty = "bool"

\* validate_rh: the error it raises, or "ok".
validate_rh(rh) ==
    IF ~IsInstanceIntFloat(rh) THEN "TypeError"
    ELSE IF ~(Le(IntV(RH_MIN), rh) /\ Le(rh, IntV(RH_MAX))) THEN "ValueError"
    ELSE "ok"

\* validate_temp: the error it raises, or "ok".
validate_temp(temp) ==
    IF ~IsInstanceIntFloat(temp) THEN "TypeError"
    ELSE IF ~(Le(IntV(TEMP_MIN), temp) /\ Le(temp, IntV(TEMP_MAX))) THEN "ValueError"
    ELSE "ok"

\* The base class of each exception class (types.py and the builtins).
ExceptionBase(cls) ==
    CASE cls = "TemperatureError" -> "PreservationError"
      [] cls = "HumidityError" -> "PreservationError"
      [] cls = "IndexRangeError" -> "PreservationError"
      [] OTHER -> "Exception"

\* "except cls" catches an exception of class err.
Catches(cls, err) ==
    \/ err = cls
    \/ cls = "Exception"
    \/ ExceptionBase(err) = cls

FromTable(v) == [kind |-> "ok", from |-> "table", val |-> v]
Literal(v) == [kind |-> "ok", from |-> "literal", val |-> v]

\* pi(t, rh)
pi(t, rh) ==
    IF validate_rh(rh) # "ok" THEN Raise(validate_rh(rh))
    ELSE IF validate_temp(t) # "ok" THEN Raise(validate_temp(t))
    ELSE LET r == GetItem(pi_table, t, rh)
         IN IF r.kind = "ok" THEN FromTable(r.val)
            ELSE IF Catches("TemperatureError", r.kind) THEN Raise("TemperatureError")
            ELSE IF Catches("HumidityError", r.kind) THEN Raise("HumidityError")
            ELSE Raise("PreservationError")

\* mold(t, rh)
mold(t, rh) ==
    IF validate_rh(rh) # "ok" THEN Raise(validate_rh(rh))
    ELSE IF validate_temp(t) # "ok" THEN Raise(validate_temp(t))
    ELSE LET r == GetItem(mold_table, t, rh)
         IN IF r.kind = "ok" THEN FromTable(r.val)
            ELSE IF Catches("IndexRangeError", r.kind) THEN Literal(0)
            ELSE Raise("PreservationError")

\* emc(t, rh)
emc(t, rh) ==
    IF validate_rh(rh) # "ok" THEN Raise(validate_rh(rh))
    ELSE IF validate_temp(t) # "ok" THEN Raise(validate_temp(t))
    ELSE LET r == GetItem(emc_table, t, rh)
         IN IF r.kind = "ok" THEN FromTable(r.val)
            ELSE IF Catches("TemperatureError", r.kind) THEN Raise("TemperatureError")
            ELSE IF Catches("HumidityError", r.kind) THEN Raise("HumidityError")
            ELSE Raise("PreservationError")

\* The JavaScript reference (dp.js).  Math.round(x) is the integer nearest to
\* x, the larger one on a tie: the n with n - 1/2 <= x < n + 1/2, in exact
\* arithmetic.
JsMathRound(x) == Floor([ty |-> "float", q |-> x.q + 2, e |-> x.e])

JsMax(a, b) == IF a > b THEN a ELSE b
JsMin(a, b) == IF a < b THEN a ELSE b

\* pitable[((t<-23 ? -23 : t>65 ? 65 : Math.round(t))+23)*90
\*         + (rh<6 ? 6 : rh>95 ? 95 : Math.round(rh)) - 6]
JsPi(t, rh) ==
    ((IF Lt(t, IntV(-23)) THEN -23
      ELSE IF Gt(t, IntV(65)) THEN 65 ELSE JsMathRound(t)) + 23) * 90
    + (IF Lt(rh, IntV(6)) THEN 6
       ELSE IF Gt(rh, IntV(95)) THEN 95 ELSE JsMathRound(rh)) - 6

\* emctable[(Math.max(-20,Math.min(65,Math.round(t)))+20)*101 + Math.round(rh)]
JsEmc(t, rh) ==
    (JsMax(-20, JsMin(65, JsMathRound(t))) + 20) * 101 + JsMathRound(rh)

\* The inputs of pi, mold and emc: the 0.5 grid from one below the accepted
\* minimum to one above the accepted maximum, and three off-grid arguments.
OddInputs == {IntV(20), NonNumber("str"), NaN}

ApiTemps ==
    {FloatV(2 * k, 0) : k \in (2 * (TEMP_MIN - 1))..(2 * (TEMP_MAX + 1))}
        \cup OddInputs

ApiRhs ==
    {FloatV(2 * k, 0) : k \in (2 * (RH_MIN - 1))..(2 * (RH_MAX + 1))}
        \cup OddInputs

RoundInputs ==
    {IntV(n) : n \in (-MaxRound)..MaxRound}
        \cup {FloatV(q, 0) : q \in (-4 * MaxRound)..(4 * MaxRound)}
        \cup TieNeighbours \cup {NaN, PosInf, NegInf}

\* LookupTable._round_half_up(n)
RoundCall ==
    /\ call = NoCall
    /\ \E n \in RoundInputs :
        call' = [op |-> "_round_half_up", n |-> n, result |-> RoundHalfUp(n)]
    /\ UNCHANGED <<table, tables>>

PiCall ==
    /\ call = NoCall
    /\ \E t \in ApiTemps, rh \in ApiRhs :
        call' = [op |-> "pi", t |-> t, rh |-> rh, result |-> pi(t, rh)]
    /\ UNCHANGED <<table, tables>>

MoldCall ==
    /\ call = NoCall
    /\ \E t \in ApiTemps, rh \in ApiRhs :
        call' = [op |-> "mold", t |-> t, rh |-> rh, result |-> mold(t, rh)]
    /\ UNCHANGED <<table, tables>>

EmcCall ==
    /\ call = NoCall
    /\ \E t \in ApiTemps, rh \in ApiRhs :
        call' = [op |-> "emc", t |-> t, rh |-> rh, result |-> emc(t, rh)]
    /\ UNCHANGED <<table, tables>>

NextModule == RoundCall \/ PiCall \/ MoldCall \/ EmcCall \/ Done

\* The module-level functions of lookup.py.
SpecModule == Init /\ [][NextModule]_vars

\* ------------------------------------------------ install/parse.py: parsing

\* An optional value: None, or the value in a one-element set.
None == {}
Some(v) == {v}
Val(x) == CHOOSE v \in x : TRUE

_MAX_RH_RANGE == 101
_MIN_RH_MIN == 0
_MAX_RH_MAX == 100

TableMetaDataExclusiveMax(temp_min, rh_range, temp_max, temp_offset, rh_min, rh_max, rh_offset, array_offset) ==
    IF temp_max = None THEN Raise("ValidationError")
    ELSE Return([temp_min |-> temp_min,
                 rh_range |-> rh_range,
                 temp_max |-> temp_max,
                 temp_offset |-> temp_offset,
                 temp_range |-> Val(temp_max) - temp_min,
                 rh_min |-> IF rh_min # None THEN Val(rh_min) ELSE _MIN_RH_MIN,
                 rh_max |-> IF rh_min # None THEN rh_max ELSE Some(_MAX_RH_MAX),
                 rh_offset |-> rh_offset,
                 array_offset |-> array_offset])

\* TableMetaData(...) with __post_init__: the metadata, or ValidationError.
TableMetaData(temp_min, rh_range, temp_max, temp_offset, rh_min, rh_max, rh_offset, array_offset) ==
    IF temp_max = None THEN Raise("ValidationError")
    ELSE IF rh_min = None /\ rh_max = None /\ rh_range # _MAX_RH_RANGE
    THEN Raise("ValidationError")
    ELSE
    LET temp_range == Val(temp_max) - temp_min + 1
        rmin == IF rh_min # None THEN Val(rh_min)
                ELSE IF rh_max # None THEN Val(rh_max) - rh_range + 1
                ELSE _MIN_RH_MIN
        rmax == IF rh_min # None \/ rh_max # None THEN rh_max
                ELSE Some(_MAX_RH_MAX)
    IN IF temp_offset # None /\ Val(temp_offset) # -1 * temp_min
       THEN Raise("ValidationError")
       ELSE IF rh_offset # None /\ Val(rh_offset) # -1 * rmin
       THEN Raise("ValidationError")
       ELSE Return([temp_min |-> temp_min,
                    rh_range |-> rh_range,
                    temp_max |-> temp_max,
                    temp_offset |-> temp_offset,
                    temp_range |-> temp_range,
                    rh_min |-> rmin,
                    rh_max |-> rmax,
                    rh_offset |-> rh_offset,
                    array_offset |-> array_offset])

\* TableMetaData.size
Size(info) == info.temp_range * info.rh_range

extract_array_sizes_accepting_zero(js) ==
    IF ~js.pi_array_size.found THEN Raise("ExtractionError")
    ELSE IF ~js.emc_array_size.found THEN Raise("ExtractionError")
    ELSE Return(<<js.pi_array_size.size, js.emc_array_size.size>>)

\* extract_array_sizes: the two declared sizes, or ExtractionError.
extract_array_sizes(js) ==
    IF ~js.pi_array_size.found THEN Raise("ExtractionError")
    ELSE IF ~(js.pi_array_size.size > 0) THEN Raise("ExtractionError")
    ELSE IF ~js.emc_array_size.found THEN Raise("ExtractionError")
    ELSE IF ~(js.emc_array_size.size > 0) THEN Raise("ExtractionError")
    ELSE Return(<<js.pi_array_size.size, js.emc_array_size.size>>)

\* extract_pi_meta_data
extract_pi_meta_data(js) ==
    LET g == js.pi_ranges
    IN IF ~g.found THEN Raise("ExtractionError")
       ELSE TableMetaData(g.temp_min, g.rh_size, Some(g.temp_max),
                          Some(g.temp_offset), Some(g.rh_min), Some(g.rh_max),
                          Some(g.rh_offset), 0)

\* extract_emc_meta_data
extract_emc_meta_data(js) ==
    LET g == js.emc_ranges
    IN IF ~g.found THEN Raise("ExtractionError")
       ELSE TableMetaData(g.temp_min, g.rh_size, Some(g.temp_max),
                          Some(g.temp_offset), None, None, None, 0)

extract_mold_meta_data_with_default(js) ==
    LET g == js.mold_ranges
    IN IF ~g.found
       THEN TableMetaData(2, 36, Some(45), None, Some(65), None, None, 8010)
       ELSE TableMetaData(g.temp_min, g.rh_size, Some(g.temp_max), None,
                          Some(g.rh_min), None, Some(g.rh_offset), g.offset)

\* extract_mold_meta_data
extract_mold_meta_data(js) ==
    LET g == js.mold_ranges
    IN IF ~g.found THEN Raise("ExtractionError")
       ELSE TableMetaData(g.temp_min, g.rh_size, Some(g.temp_max), None,
                          Some(g.rh_min), None, Some(g.rh_offset), g.offset)

\* extract_table_meta_data: the metadata of the three tables, or the error
\* of the first step that fails.
extract_table_meta_data(js) ==
    LET sizes == extract_array_sizes(js)
        p == extract_pi_meta_data(js)
        e == extract_emc_meta_data(js)
        m == extract_mold_meta_data(js)
    IN IF sizes.kind # "ok" THEN Raise(sizes.kind)
       ELSE IF p.kind # "ok" THEN Raise(p.kind)
       ELSE IF e.kind # "ok" THEN Raise(e.kind)
       ELSE IF m.kind # "ok" THEN Raise(m.kind)
       ELSE Return([PI |-> p.val, EMC |-> e.val, MOLD |-> m.val])

extract_raw_arrays_missing_emc_empty(js, meta_data) ==
    LET emc_len == IF js.emc_data.found THEN js.emc_data.len ELSE 0
    IN IF ~js.pi_data.found THEN Raise("ExtractionError")
       ELSE IF js.pi_data.largest = "exceeds_c_int" THEN Raise("OverflowError")
       ELSE IF Size(meta_data.PI) + Size(meta_data.MOLD) # js.pi_data.len
       THEN Raise("ValidationError")
       ELSE IF Size(meta_data.EMC) # emc_len THEN Raise("ValidationError")
       ELSE Return(<<js.pi_data.len, emc_len>>)

extract_raw_arrays_no_pi_check(js, meta_data) ==
    IF ~js.pi_data.found THEN Raise("ExtractionError")
    ELSE IF js.pi_data.largest = "exceeds_c_int" THEN Raise("OverflowError")
    ELSE IF ~js.emc_data.found THEN Raise("ExtractionError")
    ELSE IF Size(meta_data.EMC) # js.emc_data.len THEN Raise("ValidationError")
    ELSE Return(<<js.pi_data.len, js.emc_data.len>>)

extract_raw_arrays_no_emc_check(js, meta_data) ==
    IF ~js.pi_data.found THEN Raise("ExtractionError")
    ELSE IF js.pi_data.largest = "exceeds_c_int" THEN Raise("OverflowError")
    ELSE IF ~js.emc_data.found THEN Raise("ExtractionError")
    ELSE IF Size(meta_data.PI) + Size(meta_data.MOLD) # js.pi_data.len
    THEN Raise("ValidationError")
    ELSE Return(<<js.pi_data.len, js.emc_data.len>>)

\* extract_raw_arrays: the lengths of pi_array and emc_array, or the error.
\* array("i", pi_values) raises OverflowError for a value that is no C int.
extract_raw_arrays(js, meta_data) ==
    IF ~js.pi_data.found THEN Raise("ExtractionError")
    ELSE IF js.pi_data.largest = "exceeds_c_int" THEN Raise("OverflowError")
    ELSE IF ~js.emc_data.found THEN Raise("ExtractionError")
    ELSE IF Size(meta_data.PI) + Size(meta_data.MOLD) # js.pi_data.len
    THEN Raise("ValidationError")
    ELSE IF Size(meta_data.EMC) # js.emc_data.len THEN Raise("ValidationError")
    ELSE Return(<<js.pi_data.len, js.emc_data.len>>)

\* A bound of a Python slice of a list of n elements.
SliceBound(i, n) ==
    IF i < 0 THEN (IF n + i < 0 THEN 0 ELSE n + i)
    ELSE IF i > n THEN n ELSE i

\* a[start:stop] of a list of n elements: where it starts and how long it is.
Slice(n, start, stop) ==
    LET lo == SliceBound(start, n)
        hi == SliceBound(stop, n)
    IN [base |-> lo, len |-> IF hi > lo THEN hi - lo ELSE 0]

\* numpy's reshape(r, c) of n elements: the shape, or ValueError; one
\* dimension given as -1 is inferred.
Reshape(n, r, c) ==
    IF r >= 0 /\ c >= 0
    THEN IF r * c = n THEN Return(<<r, c>>) ELSE Raise("ValueError")
    ELSE IF r = -1 /\ c > 0 /\ n % c = 0 THEN Return(<<n \div c, c>>)
    ELSE IF c = -1 /\ r > 0 /\ n % r = 0 THEN Return(<<r, n \div r>>)
    ELSE Raise("ValueError")

\* The values of a list of numbers given compactly: every element is fill
\* except the one at position odd_at, which is odd_value.
Values(fill, odd_at, odd_value) ==
    [fill |-> fill, odd_at |-> odd_at, odd_value |-> odd_value]

\* The element at position p.
ValueAt(values, p) ==
    IF p = values.odd_at THEN values.odd_value ELSE values.fill

\* The values of pi_array: int(x) of each literal, held as a C int.
PiArrayValues(js) ==
    Values(js.pi_data.fill, js.pi_data.odd_at, js.pi_data.odd_value)

\* The values of emc_array: float(x) of each literal.  A literal is given
\* in hundredths; the model writes a moisture value in units of
\* 1 / (100 * 2^14), in which every float16 from 1/16 upward is a whole
\* number.
EmcUnit == Pow2(14)

EmcArrayValues(js) ==
    Values(EmcUnit * js.emc_data.fill, js.emc_data.odd_at,
           EmcUnit * js.emc_data.odd_value)

\* A C int converted to np.int16: the low 16 bits, as a signed number.
ToInt16(v) == ((v + 32768) % 65536) - 32768

\* A double converted to np.float16 (round to nearest, ties to even; 11
\* significant bits), for 0 and for values from 1/16 up to 1024, in units
\* of 1 / (100 * 2^14).
ToFloat16(u) ==
    IF u = 0 THEN 0
    ELSE RoundTiesEven(u, 100 * Pow2(Log2(u \div (1024 * 100))))

\* np.array(values, dtype=dtype)
AsType(values, dtype) ==
    IF dtype = "int16"
    THEN Values(ToInt16(values.fill), values.odd_at, ToInt16(values.odd_value))
    ELSE Values(ToFloat16(values.fill), values.odd_at,
                ToFloat16(values.odd_value))

\* LookupTable(np.array(part, dtype=dtype).reshape(temp_range, rh_range),
\*             temp_min, rh_min, boundary_behavior): the array keeps, besides
\* where its cells were cut from, the converted values.
BuildTable(part, values, dtype, info, boundary_behavior) ==
    LET shape == Reshape(part.len, info.temp_range, info.rh_range)
    IN IF shape.kind # "ok" THEN Raise(shape.kind)
       ELSE LookupTableInit(
                NdArray(shape.val, part.base)
                    @@ [dtype |-> dtype, values |-> AsType(values, dtype)],
                info.temp_min, info.rh_min, boundary_behavior, "None")

\* The boundary policy fetch_and_validate_tables gives each table.
PiPolicy == CLAMP
EmcPolicy == CLAMP
MoldPolicyClamp == CLAMP
MoldPolicy == RAISE

\* fetch_and_validate_tables(url), js being what the URL serves.
fetch_and_validate_tables(js) ==
    IF js.status # "ok" THEN Raise("RequestException")
    ELSE
    LET table_info == extract_table_meta_data(js)
    IN IF table_info.kind # "ok" THEN Raise(table_info.kind)
       ELSE
       LET info == table_info.val
           arrays == extract_raw_arrays(js, info)
       IN IF arrays.kind # "ok" THEN Raise(arrays.kind)
          ELSE
          LET pi_len == arrays.val[1]
              emc_len == arrays.val[2]
              p == BuildTable(Slice(pi_len, 0, Size(info.PI)),
                              PiArrayValues(js), "int16", info.PI, PiPolicy)
              m == BuildTable(Slice(pi_len, info.MOLD.array_offset, pi_len),
                              PiArrayValues(js), "int16", info.MOLD, MoldPolicy)
              e == BuildTable(Slice(emc_len, 0, emc_len),
                              EmcArrayValues(js), "float16", info.EMC, EmcPolicy)
          IN IF p.kind # "ok" THEN Raise(p.kind)
             ELSE IF m.kind # "ok" THEN Raise(m.kind)
             ELSE IF e.kind # "ok" THEN Raise(e.kind)
             ELSE [kind |-> "ok",
                   pi_table |-> p.val,
                   emc_table |-> e.val,
                   mold_table |-> m.val]

\* ------------------------------------------- install/export.py: the export

\* data.tolist() written with repr() into the module text: the nested list
\* of the cells as Python ints or floats.  repr() of a float is the shortest
\* decimal that float() reads back as the same double, so the text denotes
\* the exact values; an array without rows is written as [].
ListText(data) ==
    [nesting |-> IF Rows(data) = 0 THEN <<0>> ELSE data.shape,
     base |-> data.base,
     values |-> data.values]

\* round(float(x), 1) of each cell: the nearest multiple of 0.1, a tie going
\* to the even multiple.
RoundOneDecimal(values) ==
    LET tenth == (100 * EmcUnit) \div 10
    IN Values(RoundTiesEven(values.fill, tenth), values.odd_at,
              RoundTiesEven(values.odd_value, tenth))

\* The LookupTable(np.array(<list>, dtype=<dtype>), <temp_min>, <rh_min>,
\* BoundaryBehavior.<policy>) statement the export writes for one table.
TableText(list, dtype, tbl, policy) ==
    [list |-> list, dtype |-> dtype, temp_min |-> tbl.temp_min,
     rh_min |-> tbl.rh_min, policy |-> policy]

\* generate_tables_module of src/preservationeval/install/export.py: the
\* text of the module it writes.  The text annotates the three tables with
\* Final[...] and imports numpy, LookupTable and BoundaryBehavior only.
generate_tables_module(pi_tbl, emc_tbl, mold_tbl) ==
    [imports_final |-> FALSE,
     pi_table |-> TableText(ListText(pi_tbl.data), "int16", pi_tbl, CLAMP),
     mold_table |-> TableText(ListText(mold_tbl.data), "int16", mold_tbl, RAISE),
     emc_table |-> TableText(ListText(emc_tbl.data), "float16", emc_tbl, CLAMP)]

\* generate_tables_module of src/install/export.py: it imports Final, and
\* writes the moisture values rounded to NUM_EMC_DECIMALS = 1 decimal.
install_generate_tables_module(pi_tbl, emc_tbl, mold_tbl) ==
    [imports_final |-> TRUE,
     pi_table |-> TableText(ListText(pi_tbl.data), "int16", pi_tbl, CLAMP),
     mold_table |-> TableText(ListText(mold_tbl.data), "int16", mold_tbl, RAISE),
     emc_table |->
        TableText([ListText(emc_tbl.data) EXCEPT
                        !.values = RoundOneDecimal(emc_tbl.data.values)],
                  "float16", emc_tbl, CLAMP)]

\* One LookupTable(...) statement of the generated module, executed.
LoadTable(t) ==
    LookupTableInit(NdArray(t.list.nesting, t.list.base)
                        @@ [dtype |-> t.dtype,
                            values |-> AsType(t.list.values, t.dtype)],
                    t.temp_min, t.rh_min, t.policy, "None")

\* How Python evaluates the annotation of a module-level annotated
\* assignment: when the statement runs (up to 3.13), or not until
\* __annotations__ is read (3.14).
Pythons == {"eager_annotations", "deferred_annotations"}

\* import of the generated module: its three tables, or the exception.
LoadModule(text, python) ==
    IF ~text.imports_final /\ python = "eager_annotations"
    THEN Raise("NameError")
    ELSE LET p == LoadTable(text.pi_table)
             m == LoadTable(text.mold_table)
             e == LoadTable(text.emc_table)
         IN IF p.kind # "ok" THEN Raise(p.kind)
            ELSE IF m.kind # "ok" THEN Raise(m.kind)
            ELSE IF e.kind # "ok" THEN Raise(e.kind)
            ELSE [kind |-> "ok", pi_table |-> p.val, emc_table |-> e.val,
                  mold_table |-> m.val]

\* ---------------------------------------------------------- source documents

Found(fields) == [found |-> TRUE] @@ fields
NotFound == [found |-> FALSE]

\* dp.js as the parse tests write it: what each pattern of patterns.py
\* matches in it.  The mold pattern matches the temperature offset of the
\* index expression, (Math.round(t) - 2), without capturing it; largest says
\* whether every value of the pitable literal is a C int.  The values of a
\* literal are fill, but for odd_value at position odd_at; those of the
\* emctable literal are in hundredths (500 is 5.0).
ReferenceJs ==
    [status |-> "ok",
     pi_array_size |-> Found([size |-> 9594]),
     emc_array_size |-> Found([size |-> 8686]),
     pi_ranges |-> Found([temp_min |-> -23, temp_max |-> 65, temp_offset |-> 23,
                          rh_size |-> 90, rh_min |-> 6, rh_max |-> 95,
                          rh_offset |-> -6]),
     mold_ranges |-> Found([temp_max |-> 45, temp_min |-> 2, rh_min |-> 65,
                            offset |-> 8010, temp_offset |-> -2,
                            rh_size |-> 36, rh_offset |-> -65]),
     emc_ranges |-> Found([temp_min |-> -20, temp_max |-> 65, temp_offset |-> 20,
                           rh_size |-> 101]),
     pi_data |-> Found([len |-> 9594, largest |-> "fits_c_int",
                        fill |-> 45, odd_at |-> 8010, odd_value |-> 0]),
     emc_data |-> Found([len |-> 8686,
                         fill |-> 500, odd_at |-> 0, odd_value |-> 500])]

\* A document of the same structure with small tables: PI -1..1 x 1..2,
\* mold 1..2 x 99..100 at offset 6, EMC -1..0 x 0..100.
SmallJs ==
    [status |-> "ok",
     pi_array_size |-> Found([size |-> 10]),
     emc_array_size |-> Found([size |-> 202]),
     pi_ranges |-> Found([temp_min |-> -1, temp_max |-> 1, temp_offset |-> 1,
                          rh_size |-> 2, rh_min |-> 1, rh_max |-> 2,
                          rh_offset |-> -1]),
     mold_ranges |-> Found([temp_max |-> 2, temp_min |-> 1, rh_min |-> 99,
                            offset |-> 6, temp_offset |-> -1,
                            rh_size |-> 2, rh_offset |-> -99]),
     emc_ranges |-> Found([temp_min |-> -1, temp_max |-> 0, temp_offset |-> 1,
                           rh_size |-> 101]),
     pi_data |-> Found([len |-> 10, largest |-> "fits_c_int",
                        fill |-> 45, odd_at |-> 6, odd_value |-> 0]),
     emc_data |-> Found([len |-> 202,
                         fill |-> 500, odd_at |-> 0, odd_value |-> 500])]

\* The defects a document can have, and three variants of the values of
\* its literals that are no defects: a pitable value above 32767 in the part
\* of the index table or in the part of the mold table, and the emctable
\* values 12.3 and 5.25.
Defects ==
    {"none", "fetch_fails",
     "no_pi_array_size", "no_emc_array_size",
     "pi_array_size_zero", "emc_array_size_zero",
     "no_pi_ranges", "no_mold_ranges", "no_emc_ranges",
     "no_pi_data", "no_emc_data", "pi_data_short", "emc_data_long",
     "pi_value_too_large", "pi_value_above_int16", "mold_value_above_int16",
     "emc_value_inexact", "emc_value_two_decimals",
     "pi_temp_offset", "pi_rh_offset", "mold_temp_offset", "mold_rh_offset",
     "emc_temp_offset", "mold_array_offset", "pi_rh_size"}

\* The document js with one defect; a defect of a part that is already
\* missing changes nothing.
WithDefect(js, d) ==
    LET p == js.pi_ranges
        m == js.mold_ranges
        e == js.emc_ranges
        rows == p.temp_max - p.temp_min + 1
    IN
    CASE d = "none" -> js
      [] d = "fetch_fails" -> [js EXCEPT !.status = "error"]
      [] d = "no_pi_array_size" -> [js EXCEPT !.pi_array_size = NotFound]
      [] d = "no_emc_array_size" -> [js EXCEPT !.emc_array_size = NotFound]
      [] d = "pi_array_size_zero" ->
            IF js.pi_array_size.found
            THEN [js EXCEPT !.pi_array_size.size = 0] ELSE js
      [] d = "emc_array_size_zero" ->
            IF js.emc_array_size.found
            THEN [js EXCEPT !.emc_array_size.size = 0] ELSE js
      [] d = "no_pi_ranges" -> [js EXCEPT !.pi_ranges = NotFound]
      [] d = "no_mold_ranges" -> [js EXCEPT !.mold_ranges = NotFound]
      [] d = "no_emc_ranges" -> [js EXCEPT !.emc_ranges = NotFound]
      [] d = "no_pi_data" -> [js EXCEPT !.pi_data = NotFound]
      [] d = "no_emc_data" -> [js EXCEPT !.emc_data = NotFound]
      [] d = "pi_data_short" ->
            IF js.pi_data.found THEN [js EXCEPT !.pi_data.len = @ - 1] ELSE js
      [] d = "emc_data_long" ->
            IF js.emc_data.found THEN [js EXCEPT !.emc_data.len = @ + 1] ELSE js
      [] d = "pi_value_too_large" ->
            IF js.pi_data.found
            THEN [js EXCEPT !.pi_data.largest = "exceeds_c_int"] ELSE js
      [] d = "pi_value_above_int16" ->
            IF js.pi_data.found
            THEN [js EXCEPT !.pi_data.odd_at = 0, !.pi_data.odd_value = 40000]
            ELSE js
      [] d = "mold_value_above_int16" ->
            IF js.pi_data.found
            THEN [js EXCEPT !.pi_data.odd_at = js.pi_data.len - 1,
                            !.pi_data.odd_value = 32768]
            ELSE js
      [] d = "emc_value_inexact" ->
            IF js.emc_data.found
            THEN [js EXCEPT !.emc_data.odd_at = 1, !.emc_data.odd_value = 1230]
            ELSE js
      [] d = "emc_value_two_decimals" ->
            IF js.emc_data.found
            THEN [js EXCEPT !.emc_data.odd_at = 2, !.emc_data.odd_value = 525]
            ELSE js
      [] d = "pi_temp_offset" ->
            IF p.found THEN [js EXCEPT !.pi_ranges.temp_offset = @ + 1] ELSE js
      [] d = "pi_rh_offset" ->
            IF p.found THEN [js EXCEPT !.pi_ranges.rh_offset = @ - 1] ELSE js
      [] d = "mold_temp_offset" ->
            IF m.found THEN [js EXCEPT !.mold_ranges.temp_offset = @ - 1] ELSE js
      [] d = "mold_rh_offset" ->
            IF m.found THEN [js EXCEPT !.mold_ranges.rh_offset = @ - 1] ELSE js
      [] d = "emc_temp_offset" ->
            IF e.found THEN [js EXCEPT !.emc_ranges.temp_offset = @ + 1] ELSE js
      [] d = "mold_array_offset" ->
            IF m.found THEN [js EXCEPT !.mold_ranges.offset = @ + 1] ELSE js
      [] d = "pi_rh_size" ->
            IF p.found /\ m.found /\ js.pi_data.found
            THEN [js EXCEPT !.pi_ranges.rh_size = @ + 1,
                            !.pi_data.len = @ + rows,
                            !.mold_ranges.offset = @ + rows]
            ELSE js

\* The documents served: the two above, each with up to two defects.
Documents ==
    {WithDefect(WithDefect(js, d1), d2) :
        js \in {ReferenceJs, SmallJs}, d1 \in Defects, d2 \in Defects}

\* The coordinates tried on a fetched table: around both ends of each axis.
EdgeCoords(lo, hi) ==
    {IntV(n) : n \in {lo - 2, lo - 1, lo, lo + 1, hi - 1, hi, hi + 1, hi + 2}}
        \cup {FloatV(4 * lo - 2, 0), FloatV(4 * hi + 2, 0)}

\* pi_table, emc_table, mold_table = fetch_and_validate_tables(url)
Fetch ==
    /\ call = NoCall
    /\ \E js \in Documents :
        LET r == fetch_and_validate_tables(js)
        IN /\ tables' = IF r.kind = "ok" THEN r ELSE [kind |-> "none"]
           /\ call' = [op |-> "fetch_and_validate_tables", js |-> js,
                       result |-> r.kind]
    /\ UNCHANGED table

\* A lookup on one of the three fetched tables.
FetchedLookup ==
    /\ call = NoCall
    /\ tables.kind = "ok"
    /\ \E which \in {"pi_table", "emc_table", "mold_table"} :
        LET tbl == tables[which]
        IN \E temp \in EdgeCoords(tbl.temp_min, TempMax(tbl)),
              rh \in EdgeCoords(tbl.rh_min, RhMax(tbl)) :
            call' = [op |-> "fetched[]", which |-> which, temp |-> temp,
                     rh |-> rh, result |-> GetItem(tbl, temp, rh)]
    /\ UNCHANGED <<table, tables>>

\* generate_tables_module(pi_table, emc_table, mold_table) of one of the two
\* export.py files on the fetched tables, then the import of the module it
\* wrote.
ExportLoad ==
    /\ call = NoCall
    /\ tables.kind = "ok"
    /\ \E file \in {"preservationeval/install/export.py", "install/export.py"},
          python \in Pythons :
        LET text == IF file = "install/export.py"
                    THEN install_generate_tables_module(
                            tables.pi_table, tables.emc_table, tables.mold_table)
                    ELSE generate_tables_module(
                            tables.pi_table, tables.emc_table, tables.mold_table)
        IN call' = [op |-> "export_load", file |-> file, python |-> python,
                    result |-> LoadModule(text, python)]
    /\ UNCHANGED <<table, tables>>

\* extract_array_sizes(js_content)
ExtractArraySizesCall ==
    /\ call = NoCall
    /\ \E js \in Documents :
        call' = [op |-> "extract_array_sizes", js |-> js,
                 result |-> extract_array_sizes(js)]
    /\ UNCHANGED <<table, tables>>

\* extract_pi_meta_data, extract_emc_meta_data or extract_mold_meta_data
ExtractMetaDataCall ==
    /\ call = NoCall
    /\ \E js \in Documents, which \in {"PI", "EMC", "MOLD"} :
        call' = [op |-> "extract_meta_data", which |-> which, js |-> js,
                 result |-> CASE which = "PI" -> extract_pi_meta_data(js)
                              [] which = "EMC" -> extract_emc_meta_data(js)
                              [] which = "MOLD" -> extract_mold_meta_data(js)]
    /\ UNCHANGED <<table, tables>>

\* extract_table_meta_data(js_content)
ExtractTableMetaDataCall ==
    /\ call = NoCall
    /\ \E js \in Documents :
        call' = [op |-> "extract_table_meta_data", js |-> js,
                 result |-> extract_table_meta_data(js)]
    /\ UNCHANGED <<table, tables>>

\* The metadata extract_table_meta_data returns for some document.
MetaDatas ==
    {extract_table_meta_data(js).val :
        js \in {d \in Documents : extract_table_meta_data(d).kind = "ok"}}

\* extract_raw_arrays(js_content, meta_data), the metadata being that of
\* this or of another document.
ExtractRawArraysCall ==
    /\ call = NoCall
    /\ \E js \in Documents, meta_data \in MetaDatas :
        call' = [op |-> "extract_raw_arrays", js |-> js,
                 meta_data |-> meta_data,
                 result |-> extract_raw_arrays(js, meta_data)]
    /\ UNCHANGED <<table, tables>>

NextFetch ==
    \/ Fetch
    \/ FetchedLookup
    \/ ExportLoad
    \/ ExtractArraySizesCall
    \/ ExtractMetaDataCall
    \/ ExtractTableMetaDataCall
    \/ ExtractRawArraysCall
    \/ Done

\* Table assembly by install/parse.py and lookups on what it returns.
SpecFetch == Init /\ [][NextFetch]_vars

\* ------------------------------------------- tables.py: validate_table_data

\* A numpy array given cell by cell in row-major order; finite is False
\* when one of its cells is nan or infinite instead of the number listed.
ValueArray(shape, cells, finite) ==
    [shape |-> shape, cells |-> cells, finite |-> finite]

\* np.min(data) and np.max(data) of a non-empty array.
DataMin(data) ==
    CHOOSE x \in {data.cells[i] : i \in DOMAIN data.cells} :
        \A i \in DOMAIN data.cells : x <= data.cells[i]

DataMax(data) ==
    CHOOSE x \in {data.cells[i] : i \in DOMAIN data.cells} :
        \A i \in DOMAIN data.cells : x >= data.cells[i]

\* np.abs(np.diff(data)): the differences of neighbours along the last axis.
Differences(data) ==
    {Abs(data.cells[(r - 1) * data.shape[2] + c + 1]
            - data.cells[(r - 1) * data.shape[2] + c]) :
        r \in 1..data.shape[1], c \in 1..(data.shape[2] - 1)}

\* validate_table_data(data, info): how it ends, and the warnings logged
\* before that.  np.min and np.max raise ValueError on an empty array.
validate_table_data(data, info) ==
    IF Len(data.cells) # info.total_size
    THEN [kind |-> "ValueError", warnings |-> {}]
    ELSE IF ~data.finite THEN [kind |-> "ValueError", warnings |-> {}]
    ELSE IF Len(data.cells) = 0 THEN [kind |-> "ValueError", warnings |-> {}]
    ELSE
    LET data_max == DataMax(data)
        range == IF ~(info.expected_min <= data_max
                        /\ data_max <= info.expected_max)
                 THEN {"range"} ELSE {}
        differences == Differences(data)
    IN IF differences = {} THEN [kind |-> "ValueError", warnings |-> range]
       ELSE LET max_diff == CHOOSE d \in differences :
                                \A e \in differences : d >= e
            IN [kind |-> "ok",
                warnings |-> range \cup
                    (IF 2 * max_diff > info.expected_max - info.expected_min
                     THEN {"jumps"} ELSE {})]

\* The arrays validated: 1 x 2, 2 x 1 and 2 x 2, with or without a nan.
ValueArrays ==
    {ValueArray(<<1, 2>>, cells, finite) :
        cells \in [1..2 -> (-1)..MaxValue], finite \in BOOLEAN}
    \cup {ValueArray(<<2, 1>>, cells, finite) :
        cells \in [1..2 -> (-1)..MaxValue], finite \in BOOLEAN}
    \cup {ValueArray(<<2, 2>>, cells, finite) :
        cells \in [1..4 -> (-1)..MaxValue], finite \in BOOLEAN}

\* TableInfo as far as validate_table_data reads it: values are expected in
\* 0 .. 2.
TableInfos ==
    {[total_size |-> n, expected_min |-> 0, expected_max |-> 2] : n \in {2, 4}}

\* validate_table_data(data, info)
ValidateTableDataCall ==
    /\ call = NoCall
    /\ \E data \in ValueArrays, info \in TableInfos :
        call' = [op |-> "validate_table_data", data |-> data, info |-> info,
                 result |-> validate_table_data(data, info)]
    /\ UNCHANGED <<table, tables>>

NextTables == ValidateTableDataCall \/ Done

\* The validation of tables.py.
SpecTables == Init /\ [][NextTables]_vars

\* tbl.data[r, c] of a table built by BuildTable.
TableValue(tbl, r, c) == ValueAt(tbl.data.values, Cell(tbl.data, r, c))

\* ------------------------------------------------- properties of a lookup

Looked == call.op = "__getitem__"

\* The integer an int coordinate stands for.
IntOf(x) == x.q \div 4

\* lo <= x <= hi for a number x.
InRange(x, lo, hi) == IsIntOrFloat(x) /\ Le(IntV(lo), x) /\ Le(x, IntV(hi))

NonEmpty(tbl) == Rows(tbl.data) >= 1 /\ Cols(tbl.data) >= 1

\* Two lookups end alike: the same value, or the same error.
SameOutcome(r1, r2) == r1.kind = r2.kind /\ (r1.kind = "ok" => r1.val = r2.val)

\* C1: a lookup at integer coordinates (t, rh) inside the table's range
\* returns data[t - temp_min][rh - rh_min], under every boundary policy and
\* rounding rule; at (temp_min, rh_min) that is data[0][0].
C1_InRangeIntegerLookup ==
    (/\ Looked
     /\ call.temp.ty = "int" /\ call.rh.ty = "int"
     /\ InRange(call.temp, table.temp_min, table.temp_min + Rows(table.data) - 1)
     /\ InRange(call.rh, table.rh_min, table.rh_min + Cols(table.data) - 1))
    => /\ call.result.kind = "ok"
       /\ call.result.val =
            table.data.base
            + (IntOf(call.temp) - table.temp_min) * table.data.shape[2]
            + (IntOf(call.rh) - table.rh_min)
       /\ (IntOf(call.temp) = table.temp_min /\ IntOf(call.rh) = table.rh_min)
            => call.result.val = table.data.base

C1_Witness ==
    /\ Looked
    /\ table.data.shape = <<2, 2>>
    /\ table.boundary_behavior = CLAMP_Y
    /\ call.temp = IntV(0) /\ call.rh = IntV(2)
    /\ call.result.kind = "ok" /\ call.result.val = 3

C3_ClampEqualsNearestBound ==
    (Looked /\ CLAMP \subseteq table.boundary_behavior
        /\ IsIntOrFloat(call.temp) /\ IsIntOrFloat(call.rh))
    => LET tmin == table.temp_min
           tmax == table.temp_min + Rows(table.data) - 1
           hmin == table.rh_min
           hmax == table.rh_min + Cols(table.data) - 1
           same(t, h) ==
               /\ SameOutcome(call.result, GetItem(table, t, h))
               /\ NonEmpty(table) => call.result.kind = "ok"
       IN /\ (Lt(call.temp, IntV(tmin)) /\ InRange(call.rh, hmin, hmax))
                => same(IntV(tmin), call.rh)
          /\ (Gt(call.temp, IntV(tmax)) /\ InRange(call.rh, hmin, hmax))
                => same(IntV(tmax), call.rh)
          /\ (Lt(call.rh, IntV(hmin)) /\ InRange(call.temp, tmin, tmax))
                => same(call.temp, IntV(hmin))
          /\ (Gt(call.rh, IntV(hmax)) /\ InRange(call.temp, tmin, tmax))
                => same(call.temp, IntV(hmax))

\* table[temp_max + 1, rh_max] on a 2 x 2 CLAMP table returns cell (1, 1).
C3_Witness ==
    /\ Looked
    /\ table.boundary_behavior = CLAMP
    /\ table.data.shape = <<2, 2>>
    /\ call.temp = IntV(table.temp_min + 2)
    /\ call.rh = IntV(table.rh_min + 1)
    /\ call.result.kind = "ok" /\ call.result.val = 3

\* C4: on a RAISE table a lookup one step below temp_min or above temp_max
\* raises TemperatureError, and with the temperature in range a lookup one
\* step below rh_min or above rh_max raises HumidityError.
C4_RaiseOneStepOutside ==
    (Looked /\ table.boundary_behavior = RAISE
        /\ IsIntOrFloat(call.temp) /\ IsIntOrFloat(call.rh))
    => LET tmin == table.temp_min
           tmax == table.temp_min + Rows(table.data) - 1
           hmin == table.rh_min
           hmax == table.rh_min + Cols(table.data) - 1
           is(x, n) == IsFinite(x) /\ x.q = 4 * n /\ x.e = 0
       IN /\ ((is(call.temp, tmin - 1) \/ is(call.temp, tmax + 1))
                /\ InRange(call.rh, hmin, hmax))
                => call.result.kind = "TemperatureError"
          /\ ((is(call.rh, hmin - 1) \/ is(call.rh, hmax + 1))
                /\ InRange(call.temp, tmin, tmax))
                => call.result.kind = "HumidityError"

\* table[t, rh_max + 1] with t in range raised HumidityError.
C4_Witness ==
    /\ Looked
    /\ table.boundary_behavior = RAISE
    /\ table.data.shape = <<2, 2>>
    /\ call.temp = FloatV(-2, 0)
    /\ call.rh = IntV(table.rh_min + 2)
    /\ call.result.kind = "HumidityError"

\* C8: a lookup with a coordinate that is neither an int nor a float raises
\* TypeError under every policy, whatever the other coordinate is, and
\* before any clamping (no clamp warning has been logged).
C8_TypeErrorFirst ==
    (Looked /\ (~IsIntOrFloat(call.temp) \/ ~IsIntOrFloat(call.rh)))
    => call.result.kind = "TypeError" /\ call.result.warnings = 0

\* A string humidity with an out-of-range temperature on a logging CLAMP table.
C8_Witness ==
    /\ Looked
    /\ table.boundary_behavior = CLAMP \cup LOG
    /\ call.temp = IntV(table.temp_min - 1)
    /\ call.rh = NonNumber("str")
    /\ call.result.kind = "TypeError"

\* C9: in every state of a constructed table temp_max - temp_min + 1 is the
\* number of rows of data and rh_max - rh_min + 1 the number of columns.
C9_RangeMatchesShape ==
    table # NoTable =>
        /\ TempMax(table) - table.temp_min + 1 = table.data.shape[1]
        /\ RhMax(table) - table.rh_min + 1 = table.data.shape[2]

\* A 2 x 1 table after a lookup.
C9_Witness ==
    /\ table # NoTable
    /\ table.data.shape = <<2, 1>>
    /\ Looked
    /\ TempMax(table) = table.temp_min + 1

\* ------------------------------------- properties of the module functions

\* t and rh are on the 0.5 grid and pass validate_temp and validate_rh.
Validated(t, rh) ==
    /\ IsFinite(t) /\ IsFinite(rh)
    /\ t.q % 2 = 0 /\ t.e = 0 /\ rh.q % 2 = 0 /\ rh.e = 0
    /\ validate_rh(rh) = "ok" /\ validate_temp(t) = "ok"

\* C5: _round_half_up(x) equals JavaScript's Math.round(x) for every finite x.
C5_RoundHalfUpIsMathRound ==
    (call.op = "_round_half_up" /\ IsFinite(call.n))
    => call.result = Return(JsMathRound(call.n))

\* C6: for validated t, rh on the 0.5 grid pi(t, rh) returns the cell of
\* PITABLE the JavaScript pi reads and emc(t, rh) the cell of EMCTABLE the
\* JavaScript emc reads; neither raises.
C6_PiEmcMatchJavaScript ==
    /\ (call.op = "pi" /\ Validated(call.t, call.rh))
        => call.result = FromTable(JsPi(call.t, call.rh))
    /\ (call.op = "emc" /\ Validated(call.t, call.rh))
        => call.result = FromTable(JsEmc(call.t, call.rh))

\* pi(-2.5, 45.5) reads row -2 + 23, column 46 - 6.
C6_Witness ==
    /\ call.op = "pi"
    /\ call.t = FloatV(-10, 0) /\ call.rh = FloatV(182, 0)
    /\ call.result = FromTable(21 * 90 + 40)

\* C7: for validated inputs mold(t, rh) returns 0 when t < 2, t > 45 or
\* rh < 65, and otherwise the mold-table cell (round(t) - 2, round(rh) - 65);
\* it never raises.
C7_MoldZeroOutsideWindow ==
    (call.op = "mold" /\ Validated(call.t, call.rh))
    => IF Lt(call.t, IntV(2)) \/ Gt(call.t, IntV(45)) \/ Lt(call.rh, IntV(65))
       THEN call.result = Literal(0)
       ELSE call.result =
              FromTable(8010 + (JsMathRound(call.t) - 2) * 36
                        + JsMathRound(call.rh) - 65)

\* ------------------------------------------ properties of the fetched tables

FetchedLooked == call.op = "fetched[]"

\* C10: the PI and EMC tables fetch_and_validate_tables returns clamp on both
\* axes (a lookup one step below a minimum ends as the lookup at the minimum
\* and returns a value) and its mold table raises the range error of the axis
\* for every coordinate outside its range.
C10_FetchedPolicies ==
    (FetchedLooked /\ tables.kind = "ok")
    => LET tbl == tables[call.which]
           tmin == tbl.temp_min
           tmax == tbl.temp_min + tbl.data.shape[1] - 1
           hmin == tbl.rh_min
           hmax == tbl.rh_min + tbl.data.shape[2] - 1
           tOut == Lt(call.temp, IntV(tmin)) \/ Gt(call.temp, IntV(tmax))
           hOut == Lt(call.rh, IntV(hmin)) \/ Gt(call.rh, IntV(hmax))
       IN IF call.which = "mold_table"
          THEN /\ tOut => call.result.kind = "TemperatureError"
               /\ (~tOut /\ hOut) => call.result.kind = "HumidityError"
          ELSE /\ call.result.kind = "ok"
               /\ (call.temp = IntV(tmin - 1) /\ InRange(call.rh, hmin, hmax))
                    => call.result.val = GetItem(tbl, IntV(tmin), call.rh).val
               /\ (call.rh = IntV(hmin - 1) /\ InRange(call.temp, tmin, tmax))
                    => call.result.val = GetItem(tbl, call.temp, IntV(hmin)).val

\* mold_table[1, 65] on the tables of the reference document.
C10_Witness ==
    /\ FetchedLooked
    /\ call.which = "mold_table"
    /\ tables.mold_table.temp_min = 2 /\ tables.mold_table.rh_min = 65
    /\ call.temp = IntV(1) /\ call.rh = IntV(65)
    /\ call.result.kind = "TemperatureError"

\* ---------------------------------------------- properties of the parser

\* What a document says, read off the document itself.
SizesDeclared(js) ==
    /\ js.pi_array_size.found /\ js.pi_array_size.size > 0
    /\ js.emc_array_size.found /\ js.emc_array_size.size > 0

PiRangesValid(js) ==
    /\ js.pi_ranges.found
    /\ js.pi_ranges.temp_offset = -js.pi_ranges.temp_min
    /\ js.pi_ranges.rh_offset = -js.pi_ranges.rh_min

EmcRangesValid(js) ==
    /\ js.emc_ranges.found
    /\ js.emc_ranges.temp_offset = -js.emc_ranges.temp_min
    /\ js.emc_ranges.rh_size = 101

MoldRangesValid(js) ==
    /\ js.mold_ranges.found
    /\ js.mold_ranges.rh_offset = -js.mold_ranges.rh_min

MetaDataValid(js) ==
    SizesDeclared(js) /\ PiRangesValid(js) /\ EmcRangesValid(js)
        /\ MoldRangesValid(js)

PiCount(js) ==
    (js.pi_ranges.temp_max - js.pi_ranges.temp_min + 1) * js.pi_ranges.rh_size

MoldCount(js) ==
    (js.mold_ranges.temp_max - js.mold_ranges.temp_min + 1)
        * js.mold_ranges.rh_size

EmcCount(js) ==
    (js.emc_ranges.temp_max - js.emc_ranges.temp_min + 1)
        * js.emc_ranges.rh_size

\* The data literals are there, their values fit and their lengths are the
\* counts of the metadata.
DataValid(js) ==
    /\ js.pi_data.found /\ js.pi_data.largest = "fits_c_int"
    /\ js.emc_data.found
    /\ js.pi_data.len = PiCount(js) + MoldCount(js)
    /\ js.emc_data.len = EmcCount(js)

Fetched == call.op = "fetch_and_validate_tables"

\* C11: fetch_and_validate_tables returns all three tables or raises and
\* returns none: when the fetch, an extraction, a validation or the
\* construction of one table fails, no table is returned; a document that is
\* well-formed up to a missing emctable data literal raises ExtractionError.
C11_AllOrNothing ==
    Fetched =>
        LET js == call.js
        IN /\ call.result = "ok" <=> tables.kind = "ok"
           /\ tables.kind = "ok" =>
                /\ tables.pi_table.kind = "LookupTable"
                /\ tables.emc_table.kind = "LookupTable"
                /\ tables.mold_table.kind = "LookupTable"
           /\ call.result # "ok" => tables = [kind |-> "none"]
           /\ (js.status # "ok" \/ ~MetaDataValid(js) \/ ~DataValid(js))
                => call.result # "ok"
           /\ (js.status = "ok" /\ MetaDataValid(js) /\ DataValid(js)
                    /\ js.mold_ranges.offset # PiCount(js)
                    /\ js.mold_ranges.offset <= js.pi_data.len)
                => call.result # "ok"
           /\ (js.status = "ok" /\ MetaDataValid(js) /\ js.pi_data.found
                    /\ js.pi_data.largest = "fits_c_int" /\ ~js.emc_data.found)
                => call.result = "ExtractionError"

\* The reference document without its emctable data literal.
C11_Witness ==
    /\ Fetched
    /\ call.js = WithDefect(ReferenceJs, "no_emc_data")
    /\ call.result = "ExtractionError"
    /\ tables = [kind |-> "none"]

\* C12: when the mold function's array offset differs from the element
\* count of the PI table, extract_table_meta_data returns no metadata and
\* fetch_and_validate_tables raises ValidationError.
C12_OffsetCrossCheck ==
    LET js == call.js
    IN /\ (call.op = "extract_table_meta_data"
            /\ js.pi_ranges.found /\ js.mold_ranges.found
            /\ js.mold_ranges.offset # PiCount(js))
            => call.result.kind # "ok"
       /\ (Fetched /\ js.status = "ok" /\ MetaDataValid(js) /\ DataValid(js)
            /\ js.mold_ranges.offset # PiCount(js))
            => call.result = "ValidationError"

RawArrays == call.op = "extract_raw_arrays"

C14_RawArrayLengths ==
    (RawArrays /\ call.result.kind = "ok") =>
        LET meta == call.meta_data
        IN /\ call.result.val[1] = meta.PI.temp_range * meta.PI.rh_range
                    + meta.MOLD.temp_range * meta.MOLD.rh_range
           /\ call.result.val[2] = meta.EMC.temp_range * meta.EMC.rh_range
           /\ call.result.val[1] = call.js.pi_data.len
           /\ call.result.val[2] = call.js.emc_data.len

\* The reference document: 8010 + 1584 and 8686 values.
C14_Witness ==
    /\ RawArrays
    /\ call.js = ReferenceJs
    /\ call.result = Return(<<9594, 8686>>)

\* C15: extract_table_meta_data returns no metadata when one of the three
\* range patterns is absent, and raises ExtractionError when the absent one
\* is the only defect or the first; each extract_*_meta_data raises
\* ExtractionError when its pattern is absent.
C15_MissingRangePattern ==
    LET js == call.js
    IN /\ (call.op = "extract_table_meta_data"
            /\ (~js.pi_ranges.found \/ ~js.emc_ranges.found
                    \/ ~js.mold_ranges.found))
            => /\ call.result.kind # "ok"
               /\ ~js.pi_ranges.found
                    => call.result = Raise("ExtractionError")
               /\ (PiRangesValid(js) /\ ~js.emc_ranges.found)
                    => call.result = Raise("ExtractionError")
               /\ (PiRangesValid(js) /\ EmcRangesValid(js))
                    => call.result = Raise("ExtractionError")
       /\ (call.op = "extract_meta_data"
            /\ ~(CASE call.which = "PI" -> js.pi_ranges.found
                   [] call.which = "EMC" -> js.emc_ranges.found
                   [] call.which = "MOLD" -> js.mold_ranges.found))
            => call.result = Raise("ExtractionError")

\* The reference document without the mold function.
C15_Witness ==
    /\ call.op = "extract_table_meta_data"
    /\ call.js = WithDefect(ReferenceJs, "no_mold_ranges")
    /\ call.result = Raise("ExtractionError")

\* C16: for each of the three tables the extraction of its metadata raises
\* ValidationError when the temperature offset of its index expression is
\* not the negation of its minimum temperature, or its humidity offset not
\* the negation of its humidity minimum.
C16_OffsetValidation ==
    (call.op = "extract_meta_data") =>
        LET js == call.js
            p == js.pi_ranges
            e == js.emc_ranges
            m == js.mold_ranges
        IN /\ (call.which = "PI" /\ p.found
                /\ (p.temp_offset # -p.temp_min \/ p.rh_offset # -p.rh_min))
                => call.result = Raise("ValidationError")
           /\ (call.which = "EMC" /\ e.found /\ e.temp_offset # -e.temp_min)
                => call.result = Raise("ValidationError")
           /\ (call.which = "MOLD" /\ m.found
                /\ (m.temp_offset # -m.temp_min \/ m.rh_offset # -m.rh_min))
                => call.result = Raise("ValidationError")

\* C17: extract_array_sizes raises ExtractionError when the pitable or the
\* emctable size declaration is not found or declares 0, and otherwise
\* returns the two declared sizes.
C17_ArraySizes ==
    (call.op = "extract_array_sizes") =>
        LET a == call.js.pi_array_size
            b == call.js.emc_array_size
        IN IF ~a.found \/ ~b.found
           THEN call.result = Raise("ExtractionError")
           ELSE IF a.size = 0 \/ b.size = 0
           THEN call.result = Raise("ExtractionError")
           ELSE call.result = Return(<<a.size, b.size>>)

\* pitable = new Array(0)
C17_Witness ==
    /\ call.op = "extract_array_sizes"
    /\ call.js = WithDefect(ReferenceJs, "pi_array_size_zero")
    /\ call.result = Raise("ExtractionError")

\* ------------------------------------- properties of the table's lifetime

\* C18: constructing a LookupTable fails, and leaves no table, when data is
\* not an array, is not 2-dimensional or has zero rows or zero columns.
C18_ConstructorRejects ==
    (call.op = "__init__"
        /\ (\/ call.data.kind # "ndarray"
            \/ Len(call.data.shape) # 2
            \/ call.data.shape[1] = 0
            \/ call.data.shape[2] = 0))
    => call.result # "ok" /\ table = NoTable

\* C19: a lookup, returning or raising, leaves data, temp_min, rh_min, the
\* boundary policy and the rounding rule as they were, and the same lookup on
\* the table as it is afterwards gives the same value or the same error.
C19_LookupHasNoSideEffects ==
    [][(call = NoCall /\ call'.op = "__getitem__")
        => /\ table' = table
           /\ call'.result = GetItem(table', call'.temp, call'.rh)]_vars

\* A lookup clamped on both axes that logged two warnings.
C19_Witness ==
    /\ Looked
    /\ table.boundary_behavior = CLAMP \cup LOG
    /\ table.data.shape = <<2, 2>>
    /\ call.result.kind = "ok" /\ call.result.warnings = 2

Rounded == call.op = "_round_half_up"

\* x is a half-integer float: k + 0.5 for an integer k.
IsTie(x) == x.ty = "float" /\ x.e = 0 /\ x.q % 4 = 2

\* -x
Neg(x) == [x EXCEPT !.q = -x.q, !.e = -x.e]

ReferenceExpressions(js) ==
    /\ js.pi_array_size = ReferenceJs.pi_array_size
    /\ js.emc_array_size = ReferenceJs.emc_array_size
    /\ js.pi_ranges = ReferenceJs.pi_ranges
    /\ js.mold_ranges = ReferenceJs.mold_ranges
    /\ js.emc_ranges = ReferenceJs.emc_ranges

\* C22: for the reference expressions extract_table_meta_data yields index
\* metadata of size 8010 (89 temperatures by 90 humidities), mold metadata of
\* size 1584 (44 by 36) with array_offset 8010, and moisture metadata of size
\* 8686 (86 by 101) with humidity range 0..100.
C22_ReferenceMetaData ==
    (call.op = "extract_table_meta_data" /\ ReferenceExpressions(call.js)) =>
        /\ call.result.kind = "ok"
        /\ LET v == call.result.val
           IN /\ v.PI.temp_range = 89 /\ v.PI.rh_range = 90
              /\ Size(v.PI) = 8010
              /\ v.MOLD.temp_range = 44 /\ v.MOLD.rh_range = 36
              /\ Size(v.MOLD) = 1584
              /\ v.MOLD.array_offset = 8010
              /\ v.EMC.temp_range = 86 /\ v.EMC.rh_range = 101
              /\ Size(v.EMC) = 8686
              /\ v.EMC.rh_min = 0 /\ v.EMC.rh_max = Some(100)

\* extract_table_meta_data returned for the reference document.
C22_Witness ==
    /\ call.op = "extract_table_meta_data"
    /\ call.js = ReferenceJs
    /\ call.result.kind = "ok"


\* ------------------------------- C24, C25, C30: range checks and rounding

\* x compares below lo or above hi (a nan compares neither way).
Outside(x, lo, hi) == Lt(x, IntV(lo)) \/ Gt(x, IntV(hi))

\* The nearest bound of [lo, hi] for x outside it, x itself otherwise.
ClampTo(x, lo, hi) ==
    IF Lt(x, IntV(lo)) THEN IntV(lo)
    ELSE IF Gt(x, IntV(hi)) THEN IntV(hi) ELSE x

\* The table's rounding rule applied to a finite x.
RoundedCoord(x) == ApplyRounding(table.rounding_func, x).val

\* The policy clamps neither axis.
RaisesOnBothAxes == table.boundary_behavior \cap CLAMP = {}

\* C24 as stated: a lookup rounds each coordinate first and compares the
\* rounded coordinate with the axis range, so that under RAISE a temperature
\* is rejected exactly when its rounded value lies outside
\* [temp_min, temp_max].
C24_RoundThenCompare ==
    (Looked /\ table.boundary_behavior = RAISE /\ NonEmpty(table)
        /\ IsFinite(call.temp)
        /\ InRange(call.rh, table.rh_min, RhMax(table)))
    => (call.result.kind = "TemperatureError"
        <=> (RoundedCoord(call.temp) < table.temp_min
             \/ RoundedCoord(call.temp) > TempMax(table)))

\* C24 amended: a lookup compares each raw coordinate with the axis range
\* first and rounds afterwards; under RAISE a coordinate is rejected exactly
\* when its unrounded value lies outside the range, and a lookup with both
\* coordinates inside reads the cell of the rounded coordinates.
C24_CompareThenRound ==
    (Looked /\ RaisesOnBothAxes
        /\ IsIntOrFloat(call.temp) /\ IsIntOrFloat(call.rh))
    => LET outT == Outside(call.temp, table.temp_min, TempMax(table))
           outR == Outside(call.rh, table.rh_min, RhMax(table))
       IN /\ call.result.kind = "TemperatureError" <=> outT
          /\ call.result.kind = "HumidityError" <=> (~outT /\ outR)
          /\ (InRange(call.temp, table.temp_min, TempMax(table))
                /\ InRange(call.rh, table.rh_min, RhMax(table)))
             => /\ call.result.kind = "ok"
                /\ call.result.temp_idx = RoundedCoord(call.temp) - table.temp_min
                /\ call.result.rh_idx = RoundedCoord(call.rh) - table.rh_min

\* table[temp_min - 0.25, rh] on a RAISE table raised TemperatureError,
\* although temp_min - 0.25 rounds to temp_min.
C24_Witness ==
    /\ Looked
    /\ table.boundary_behavior = RAISE
    /\ NonEmpty(table)
    /\ table.rounding_func = "round_half_up"
    /\ call.temp = FloatV(4 * table.temp_min - 1, 0)
    /\ InRange(call.rh, table.rh_min, RhMax(table))
    /\ call.result.kind = "TemperatureError"

\* C25: boundary handling is independent per axis.  Whether the temperature
\* is rejected depends on the temperature and CLAMP_X alone, not on the
\* humidity or CLAMP_Y; a humidity that is reached is rejected by its value
\* and CLAMP_Y alone; under CLAMP_X an out-of-range humidity raises
\* HumidityError while an out-of-range temperature is clamped, under CLAMP_Y
\* the other way round; and the row read depends on the temperature alone,
\* the column on the humidity alone.
C25_AxesIndependent ==
    (Looked /\ IsIntOrFloat(call.temp) /\ IsIntOrFloat(call.rh))
    => LET bb == table.boundary_behavior
           tmin == table.temp_min
           tmax == TempMax(table)
           hmin == table.rh_min
           hmax == RhMax(table)
           outT == Outside(call.temp, tmin, tmax)
           outR == Outside(call.rh, hmin, hmax)
           rejT == outT /\ "CLAMP_X" \notin bb
           rejR == outR /\ "CLAMP_Y" \notin bb
       IN /\ call.result.kind = "TemperatureError" <=> rejT
          /\ call.result.kind = "HumidityError" <=> (~rejT /\ rejR)
          /\ ("CLAMP_X" \in bb /\ "CLAMP_Y" \notin bb /\ outR)
                => call.result.kind = "HumidityError"
          /\ ("CLAMP_Y" \in bb /\ "CLAMP_X" \notin bb /\ outT)
                => call.result.kind = "TemperatureError"
          /\ call.result.kind = "ok"
                => /\ call.result.temp_idx =
                        RoundedCoord(ClampTo(call.temp, tmin, tmax)) - tmin
                   /\ call.result.rh_idx =
                        RoundedCoord(ClampTo(call.rh, hmin, hmax)) - hmin
          /\ (NonEmpty(table) /\ ~rejT /\ ~rejR
                /\ call.temp # NaN /\ call.rh # NaN)
                => call.result.kind = "ok"

\* On a CLAMP_X table a lookup with both coordinates out of range raised
\* HumidityError.
C25_Witness ==
    /\ Looked
    /\ table.boundary_behavior = CLAMP_X
    /\ NonEmpty(table)
    /\ call.temp = IntV(table.temp_min - 1)
    /\ call.rh = IntV(RhMax(table) + 1)
    /\ call.result.kind = "HumidityError"

\* C30: __getitem__ checks the temperature before the humidity.  With both
\* coordinates out of range and no temperature clamp the error is a
\* TemperatureError; a HumidityError is raised only when the temperature is
\* in range or was clamped.
C30_TemperatureCheckedFirst ==
    (Looked /\ IsIntOrFloat(call.temp) /\ IsIntOrFloat(call.rh))
    => LET outT == Outside(call.temp, table.temp_min, TempMax(table))
           outR == Outside(call.rh, table.rh_min, RhMax(table))
           clampT == "CLAMP_X" \in table.boundary_behavior
       IN /\ (outT /\ outR /\ ~clampT)
                => call.result.kind = "TemperatureError"
          /\ call.result.kind = "HumidityError"
                => (outR /\ (~outT \/ clampT))

\* table[temp_min - 1, rh_min - 1] on a RAISE table raised TemperatureError.
C30_Witness ==
    /\ Looked
    /\ table.boundary_behavior = RAISE
    /\ NonEmpty(table)
    /\ call.temp = IntV(table.temp_min - 1)
    /\ call.rh = IntV(table.rh_min - 1)
    /\ call.result.kind = "TemperatureError"


\* ------------------------------------------- C27: size and the axis ranges

\* C27: for every TableMetaData the metadata extraction produces, the number
\* of temperature steps times the number of humidity steps,
\* (temp_max - temp_min + 1) * (rh_max - rh_min + 1), equals size; an index
\* expression whose stride differs from rh_max - rh_min + 1 is not accepted.
\* (Stated for the metadata whose rh_max is known: the mold metadata has
\* none.)
C27_SizeIsProductOfRanges ==
    (call.op = "extract_meta_data" /\ call.result.kind = "ok"
        /\ call.result.val.rh_max # None)
    => LET v == call.result.val
       IN (Val(v.temp_max) - v.temp_min + 1) * (Val(v.rh_max) - v.rh_min + 1)
            = Size(v)


\* ------------------------------------------------ C28: the range warning

\* C28: validate_table_data emits a range warning whenever the observed
\* minimum is below expected_min or the observed maximum is above
\* expected_max, and still returns normally.
C28_RangeWarning ==
    (call.op = "validate_table_data"
        /\ Len(call.data.cells) = call.info.total_size
        /\ call.data.finite
        /\ call.data.shape[2] >= 2
        /\ (DataMin(call.data) < call.info.expected_min
            \/ DataMax(call.data) > call.info.expected_max))
    => /\ call.result.kind = "ok"
       /\ "range" \in call.result.warnings


\* ------------------------------- C26, C29: what the fetched tables hold

\* The (0-based) cells of a fetched table.
CellsOf(tbl) ==
    (0..(Rows(tbl.data) - 1)) \X (0..(Cols(tbl.data) - 1))

\* C26: with F the values of the pitable literal in source order, index-table
\* cell (i, j) equals F[i * rh_range_pi + j]; mold-table cell (i, j) equals
\* F[array_offset + i * rh_range_mold + j], the mold table being cut from
\* exactly [array_offset, array_offset + mold.size); moisture-table cell
\* (i, j) equals the emctable value at i * rh_range_emc + j.
C26_CellsAreSlicesOfTheLiterals ==
    (Fetched /\ call.result = "ok")
    => LET js == call.js
           F == PiArrayValues(js)
           E == EmcArrayValues(js)
           offset == js.mold_ranges.offset
       IN /\ \A c \in CellsOf(tables.pi_table) :
                TableValue(tables.pi_table, c[1], c[2])
                    = ValueAt(F, c[1] * js.pi_ranges.rh_size + c[2])
          /\ \A c \in CellsOf(tables.mold_table) :
                TableValue(tables.mold_table, c[1], c[2])
                    = ValueAt(F, offset + c[1] * js.mold_ranges.rh_size + c[2])
          /\ offset + Rows(tables.mold_table.data) * Cols(tables.mold_table.data)
                = js.pi_data.len
          /\ \A c \in CellsOf(tables.emc_table) :
                TableValue(tables.emc_table, c[1], c[2])
                    = ValueAt(E, c[1] * js.emc_ranges.rh_size + c[2])

\* C29: the index and mold tables hold every integer of the pitable literal
\* unchanged, values above 32767 included: the cell cut from the position of
\* the literal's largest value holds that value.
C29_IntegersKeptUnchanged ==
    (Fetched /\ call.result = "ok")
    => LET d == call.js.pi_data
           tbl == IF d.odd_at < Rows(tables.pi_table.data)
                                    * Cols(tables.pi_table.data)
                  THEN tables.pi_table ELSE tables.mold_table
       IN /\ tbl.data.values.odd_at = d.odd_at
          /\ tbl.data.values.odd_value = d.odd_value
          /\ tbl.data.values.fill = d.fill


\* ------------------------------------------ C23: export and load round trip

\* C23: loading the module that generate_tables_module wrote yields tables
\* with the same grid values, temp_min, rh_min and boundary policy as the
\* tables passed to generate_tables_module.
C23_ExportLoadRoundTrip ==
    call.op = "export_load"
    => /\ call.result.kind = "ok"
       /\ \A which \in {"pi_table", "emc_table", "mold_table"} :
            LET loaded == call.result[which]
                passed == tables[which]
            IN /\ loaded.data.shape = passed.data.shape
               /\ loaded.data.values = passed.data.values
               /\ loaded.temp_min = passed.temp_min
               /\ loaded.rh_min = passed.rh_min
               /\ loaded.boundary_behavior = passed.boundary_behavior

====
